---- MODULE Spec2Model ----
(***************************************************************************)
(* State-machine model of the crawl4ai_download tools:                     *)
(*   - craw_paper_v1/verify_config.py  ConfigValidator.validate_and_extract*)
(*   - craw_paper/download_pdf.py      process_jsonl / crawl_and_download  *)
(*   - craw_tool/page_capturer.py      PageCapturerService                 *)
(*   - craw_tool/downloader_pdf.py     PDFDownloaderService                *)
(*   - craw_tool/crawler_service.py    CrawlerService, run.py tasks        *)
(* Each tool is a specification of its own (SpecChain, SpecChainAnyOrder,  *)
(* SpecSem, SpecService, SpecCrawl); SpecMarker and SpecFilter apply the   *)
(* gates' marker test and the chain's filter step to drawn inputs, and     *)
(* SpecFlush follows the saves of a service run that may be killed.       *)
(* SpecExtract follows one page of a chain level from re.findall to the    *)
(* dedup, SpecFile the concurrent download_file tasks, SpecMain the phases *)
(* of run.py's main, and SpecLive the record loops of the two services     *)
(* under fairness, with no bound on browser restarts.  The variables of    *)
(* the other tools stay at their idle value.                               *)
(***************************************************************************)
EXTENDS Naturals, Integers, Sequences, FiniteSets, TLC

\* ------------------------------------------------------------------ bounds
\* Number of levels listed in target.levels of the chain configuration.
NumLevels == 3
\* Number of distinct absolute URLs of the modelled web (url 0 is base_url).
NumUrls == 2
\* Number of URLs read from the JSONL file by process_jsonl.
NumJsonlUrls == 3
\* max_concurrent of process_jsonl: page crawls allowed at once.
MaxConcurrent == 2
\* Largest number of PDF links found on one crawled page.
NumPdfLinks == 2
\* max_concurrent of crawl_and_download_pdfs: file downloads allowed at once
\* within one call (process_jsonl passes 10; scaled down with NumPdfLinks).
DownloadConcurrent == 1
\* Number of records loaded by load_input_urls of a service run.
NumRecords == 2
\* Largest configured capturer.max_retries.
MaxRetriesBound == 2
\* Largest number of browser restarts followed in one run.
MaxRestarts == 1
\* Number of distinct link spellings a crawled page can contain.
NumRawLinks == 4
\* Number of times the same crawl task is run against its output log.
MaxCrawlRuns == 2
\* Number of records of a service run whose saves are followed.
NumFlushRecords == 100
\* Number of distinct paths among the links extracted from one page.
NumPaths == 2
\* Largest number of matches re.findall returns for one page.
MaxMatches == 2
\* Largest number of records of a service run whose termination is followed.
NumLiveRecords == 10
\* Number of crawl tasks in the configuration of run.py.
NumCrawlTasks == 2
\* Number of concurrent download_file tasks.
NumFileTasks == 3
\* max_concurrent of crawl_and_download_pdfs for the download_file tasks
\* (default 5; scaled down with NumFileTasks).
FileConcurrent == 2

\* ------------------------------------------------------ program constants
\* `for attempt in range(3)` / `max_attempts: int = 3` of _handle_cloudflare.
max_attempts == 3
\* PageCapturerService.run saves when (i + 1) % 20 == 0.
CapturerSaveEvery == 20
\* PDFDownloaderService.run saves when (i + 1) % 50 == 0.
DownloaderSaveEvery == 50

VARIABLES
    \* ---- ConfigValidator.validate_and_extract (verify_config.py)
    chain_pc,        \* position in validate_and_extract
    level_idx,       \* index in `levels` of the level being processed
    current_urls,    \* frontier of the level being processed (a list)
    todo,            \* part of current_urls the for loop has not reached yet
    source_url,      \* URL whose crawler.arun call is in flight, or NoUrl
    next_urls,       \* list of URLs collected for the next level
    level_results,   \* records appended while processing the level
    all_results,     \* level index -> records kept for that level
    files,           \* level index -> records written by its _save_jsonl call
    levels,          \* config: position in target.levels -> `level` ordinal
    patterns_valid,  \* config: the extract/filter patterns are valid regexes
    level_files,     \* ordinal -> contents written to <stem>_level<ordinal>.jsonl
    fetch_count,     \* history: level index -> url -> number of crawler.arun calls
    \* ---- process_jsonl / crawl_and_download_pdfs (download_pdf.py)
    crawl_pc,        \* task -> position of crawl_with_semaphore(url, idx)
    semaphore,       \* value of process_jsonl's asyncio.Semaphore
    total_processed, \* process_jsonl's counter of finished crawls
    download_pc,     \* task -> link -> position of download_with_semaphore
    download_semaphore, \* task -> value of crawl_and_download_pdfs's Semaphore
    \* ---- PageCapturerService / PDFDownloaderService .run
    service,         \* "capturer" (page_capturer.py) or "pdf" (downloader_pdf.py)
    max_retries,     \* config.max_retries of the capturer
    run_pc,          \* position in run
    i,               \* index of the record being processed
    session,         \* number of the browser session in use (1 = first)
    cleared_sessions, \* sessions on which _handle_cloudflare has returned
    results,         \* self.results: statuses of the recorded outcomes
    output_file,     \* content of the output file (statuses of its lines)
    since_fetch,     \* history: the pause made since the last page.goto
    \* ---- _handle_cloudflare
    gate_pc,         \* position in _handle_cloudflare
    attempt,         \* loop variable of `for attempt in range(...)`
    challenged,      \* the page currently shows the challenge markers
    inspections,     \* history: marker tests made
    hits,            \* history: marker tests that found markers
    attempt_errors,  \* history: clearance attempts that raised
    gate_exc,        \* where the exception that left the gate was raised
    \* ---- PageCapturerService.capture_page
    cap_pc,          \* position in capture_page
    retry,           \* loop variable of `for retry in range(max_retries + 1)`
    attempt_log,     \* history: outcome of each page.goto attempt of the call
    result_status,   \* result["status"]
    browser_crashed, \* result["browser_crashed"]
    success_count,   \* self.success_count
    failed_count,    \* self.failed_count
    \* ---- the marker test of _handle_cloudflare, as a function of the page
    marker_pc,       \* "page" before the test, "tested" after it
    marker_service,  \* whose _handle_cloudflare: "capturer" or "pdf"
    page_title,      \* texts that occur in page.title()
    page_content,    \* texts that occur in page.content()
    is_cloudflare,   \* the value computed by the test
    \* ---- CrawlerService.crawl, crawler_service.main, run.run_crawl_task
    crawler_pc,      \* position in the crawl task
    regex_matches,   \* regex_pattern, as the set of absolute URLs it matches
    all_links,       \* links extracted from the crawled page
    prev_links,      \* history: all_links of the previous run
    log_file,        \* the output log: matched_url of each line, in order
    log_at_start,    \* history: log_file when the current run started
    summary_success, \* result_summary["success"]
    summary_error,   \* result_summary["error"]: "none" or its cause
    prev_success,    \* history: summary_success of the previous run
    task_success,    \* "success" of what run_crawl_task returns
    total_links,     \* result_summary["total_links"]
    matched_links,   \* result_summary["matched_links"]
    saved_links,     \* result_summary["saved_links"]
    crawl_runs,      \* number of the current run
    \* ---- the saves of PageCapturerService.run / PDFDownloaderService.run
    flush_pc,        \* position in run, or "killed"
    flush_service,   \* "capturer" or "pdf"
    processed,       \* records processed
    held,            \* len(self.results)
    on_disk,         \* lines of this run's results readable from the file
    flushed,         \* history: len(self.results) at the last completed save
    \* ---- the resolution and filter step of validate_and_extract
    filter_pc,       \* "input" before the loop over raw_links, "filtered" after
    filter_pattern,  \* the level's filter_pattern
    raw_links,       \* the extracted, deduplicated candidate strings
    survivors,       \* the records appended to level_results
    \* ---- one page of validate_and_extract, from re.findall to the dedup
    extract_pc,      \* position in the processing of the page
    page_matches,    \* what re.findall returned for the page
    page_source,     \* source_url: host and directory of the page
    page_filter,     \* the level's filter_pattern ("" if none)
    pending,         \* part of list(set(raw_links)) the loop has not reached
    page_results,    \* level_results
    page_next,       \* next_urls
    \* ---- the loops of PageCapturerService.run / PDFDownloaderService.run
    live_pc,         \* position in run
    live_service,    \* "capturer" or "pdf"
    live_total,      \* total = len(records)
    live_i,          \* index of the record being processed
    \* ---- run.main (run.py)
    main_pc,         \* position in main
    crawl_only,      \* args.crawl_only
    capture_only,    \* args.capture_only
    download_only,   \* args.download_only
    crawl_enabled,   \* crawl task -> it is selected by --task and enabled
    capture_enabled, \* capture_task.get("enabled", False)
    download_enabled, \* download_task.get("enabled", False)
    phases_run,      \* history: the phases whose task was run, in order
    \* ---- download_file (download_pdf.py)
    file_pc,         \* task -> position in download_with_semaphore
    file_path,       \* task -> the filepath its URL maps to
    file_state,      \* filepath -> "absent", "empty" or "complete"
    file_semaphore,  \* value of crawl_and_download_pdfs's Semaphore
    writers,         \* history: filepath -> tasks that opened it for writing
    reports          \* history: paths returned, with the file's state then

chainVars == <<chain_pc, level_idx, current_urls, todo, source_url, next_urls,
               level_results, all_results, files, fetch_count, levels,
               patterns_valid, level_files>>

semVars == <<crawl_pc, semaphore, total_processed, download_pc,
             download_semaphore>>

runVars == <<service, max_retries, run_pc, i, session, cleared_sessions,
             results, output_file>>

gateVars == <<gate_pc, attempt, challenged, inspections, hits,
              attempt_errors, gate_exc>>

capVars == <<cap_pc, retry, attempt_log, result_status, browser_crashed,
             success_count, failed_count>>

serviceVars == <<runVars, gateVars, capVars, since_fetch>>

markerVars == <<marker_pc, marker_service, page_title, page_content,
                is_cloudflare>>

crawlVars == <<crawler_pc, regex_matches, all_links, prev_links, log_file,
               log_at_start, summary_success, summary_error, prev_success,
               task_success, crawl_runs, total_links, matched_links,
               saved_links>>

flushVars == <<flush_pc, flush_service, processed, held, on_disk, flushed>>

filterVars == <<filter_pc, filter_pattern, raw_links, survivors>>

extractVars == <<extract_pc, page_matches, page_source, page_filter, pending,
                 page_results, page_next>>

liveVars == <<live_pc, live_service, live_total, live_i>>

mainVars == <<main_pc, crawl_only, capture_only, download_only, crawl_enabled,
              capture_enabled, download_enabled, phases_run>>

fileVars == <<file_pc, file_path, file_state, file_semaphore, writers,
              reports>>

vars == <<chainVars, semVars, serviceVars, markerVars, crawlVars,
          flushVars, filterVars, extractVars, liveVars, mainVars, fileVars>>

\* What the actions of one tool leave unchanged: the state of the others.
notChain ==
    <<semVars, serviceVars, markerVars, crawlVars, flushVars, filterVars,
      extractVars, liveVars, mainVars, fileVars>>

notSem ==
    <<chainVars, serviceVars, markerVars, crawlVars, flushVars, filterVars,
      extractVars, liveVars, mainVars, fileVars>>

notService ==
    <<chainVars, semVars, markerVars, crawlVars, flushVars, filterVars,
      extractVars, liveVars, mainVars, fileVars>>

notMarker ==
    <<chainVars, semVars, serviceVars, crawlVars, flushVars, filterVars,
      extractVars, liveVars, mainVars, fileVars>>

notCrawl ==
    <<chainVars, semVars, serviceVars, markerVars, flushVars, filterVars,
      extractVars, liveVars, mainVars, fileVars>>

notFlush ==
    <<chainVars, semVars, serviceVars, markerVars, crawlVars, filterVars,
      extractVars, liveVars, mainVars, fileVars>>

notFilter ==
    <<chainVars, semVars, serviceVars, markerVars, crawlVars, flushVars,
      extractVars, liveVars, mainVars, fileVars>>

notExtract ==
    <<chainVars, semVars, serviceVars, markerVars, crawlVars, flushVars,
      filterVars, liveVars, mainVars, fileVars>>

notLive ==
    <<chainVars, semVars, serviceVars, markerVars, crawlVars, flushVars,
      filterVars, extractVars, mainVars, fileVars>>

notMain ==
    <<chainVars, semVars, serviceVars, markerVars, crawlVars, flushVars,
      filterVars, extractVars, liveVars, fileVars>>

notFile ==
    <<chainVars, semVars, serviceVars, markerVars, crawlVars, flushVars,
      filterVars, extractVars, liveVars, mainVars>>

\* ------------------------------------------------------------- chain model
URLs == 0 .. (NumUrls - 1)
Levels == 1 .. NumLevels
base_url == 0
\* Value of source_url while no crawler.arun call is in flight.
NoUrl == NumUrls

\* A record of level_results: the resolved url and the page it was found on.
Record(u, s) == [url |-> u, source_url |-> s]

\* list(set(...)) enumerates a set in an order that is fixed for the process;
\* the model numbers the URLs in that order.
RECURSIVE SetToList(_)
SetToList(S) ==
    IF S = {} THEN <<>>
    ELSE LET m == CHOOSE x \in S : \A y \in S : x <= y
         IN  <<m>> \o SetToList(S \ {m})

\* The records one page contributes, in visiting order.
PageRecords(q, s) == [k \in 1 .. Len(q) |-> Record(q[k], s)]

\* "去重：按URL去重，保留第一次出现的记录": keep the first record of each url.
RECURSIVE DedupPrefix(_, _)
DedupPrefix(rs, k) ==
    IF k = 0 THEN <<>>
    ELSE LET prev == DedupPrefix(rs, k - 1) IN
         IF \E j \in 1 .. Len(prev) : prev[j].url = rs[k].url
         THEN prev
         ELSE Append(prev, rs[k])

KeepAll(rs) == rs
Deduplicate(rs) == DedupPrefix(rs, Len(rs))

\* The elements of a list, as a set.
ToSet(xs) == {xs[k] : k \in 1 .. Len(xs)}

\* "去重下一层URL": next_urls = list(set(next_urls)).
KeepList(xs) == xs
UniqueList(xs) == SetToList(ToSet(xs))

\* The for loop over current_urls is over: nothing left and nothing in flight.
LoopExhaustedEarly == source_url = NoUrl
LoopExhausted == todo = <<>> /\ source_url = NoUrl

\* "如果没有更多URL，停止": the break after a level that left no URL.
NeverStopsAfterLevel(nxt) == FALSE
StopsAfterLevel(nxt) == nxt = <<>>

ChainIdleInit ==
    /\ chain_pc = "idle"
    /\ level_idx = 0
    /\ current_urls = <<>>
    /\ todo = <<>>
    /\ source_url = NoUrl
    /\ next_urls = <<>>
    /\ level_results = <<>>
    /\ all_results = <<>>
    /\ files = <<>>
    /\ fetch_count = [l \in Levels |-> [u \in URLs |-> 0]]
    /\ levels = <<>>
    /\ patterns_valid = TRUE
    /\ level_files = [o \in Levels |-> <<>>]

\* State after `current_urls = [base_url]; all_results = {}` and entering the
\* first iteration of `for level_config in levels`.
ChainStart ==
    /\ chain_pc = "level"
    /\ level_idx = 1
    /\ current_urls = <<base_url>>
    /\ todo = <<base_url>>
    /\ source_url = NoUrl
    /\ next_urls = <<>>
    /\ level_results = <<>>
    /\ all_results = <<>>
    /\ files = <<>>
    /\ fetch_count = [l \in Levels |-> [u \in URLs |-> 0]]
    /\ patterns_valid \in BOOLEAN
    /\ level_files = [o \in Levels |-> <<>>]

\* A configuration whose levels are listed in order, with `level` = 1, 2, ...
ChainInit == ChainStart /\ levels = [k \in Levels |-> k]

\* Any configuration: `level` of each entry is whatever the file says.
ChainAnyOrderInit == ChainStart /\ levels \in [Levels -> Levels]

\* `result = await crawler.arun(url=source_url, ...)` is issued for the next
\* URL of current_urls.
ArunCall ==
    /\ chain_pc = "level"
    /\ source_url = NoUrl
    /\ todo # <<>>
    /\ source_url' = Head(todo)
    /\ todo' = Tail(todo)
    /\ fetch_count' = [fetch_count EXCEPT ![level_idx][Head(todo)] = @ + 1]
    /\ UNCHANGED <<chain_pc, level_idx, current_urls, next_urls,
                   level_results, all_results, files, levels, patterns_valid,
                   level_files>>

\* crawler.arun succeeded: the links S of the page that survive extraction,
\* resolution and filtering are recorded and queued for the next level.
ArunOk ==
    /\ chain_pc = "level"
    /\ source_url # NoUrl
    /\ patterns_valid
    /\ \E S \in SUBSET URLs :
         /\ level_results' =
                level_results \o PageRecords(SetToList(S), source_url)
         /\ next_urls' = next_urls \o SetToList(S)
    /\ source_url' = NoUrl
    /\ UNCHANGED <<chain_pc, level_idx, current_urls, todo, all_results,
                   files, fetch_count, levels, patterns_valid, level_files>>

\* crawler.arun returned success = False, or raised: the URL contributes
\* nothing and the loop goes on.
ArunFail ==
    /\ chain_pc = "level"
    /\ source_url # NoUrl
    /\ source_url' = NoUrl
    /\ UNCHANGED <<chain_pc, level_idx, current_urls, todo, next_urls,
                   level_results, all_results, files, fetch_count, levels,
                   patterns_valid, level_files>>

\* crawler.arun succeeded and re.findall (or re.match) raises re.error on the
\* invalid pattern: `except Exception` prints it and the loop goes on.
ArunReError ==
    /\ chain_pc = "level"
    /\ source_url # NoUrl
    /\ ~patterns_valid
    /\ source_url' = NoUrl
    /\ UNCHANGED <<chain_pc, level_idx, current_urls, todo, next_urls,
                   level_results, all_results, files, fetch_count, levels,
                   patterns_valid, level_files>>

\* End of a level: deduplicate, record, write the level's file, then either
\* break (no URL left), go to the next level, or leave the loop after the last.
LevelEnd ==
    /\ chain_pc = "level"
    /\ LoopExhausted
    /\ LET kept == Deduplicate(level_results) IN
         /\ all_results' = Append(all_results, kept)
         /\ files' = Append(files, kept)
         /\ level_files' =
                [level_files EXCEPT ![levels[level_idx]] = Append(@, kept)]
    /\ current_urls' = UniqueList(next_urls)
    /\ IF StopsAfterLevel(current_urls') \/ level_idx = NumLevels
       THEN /\ chain_pc' = "done"
            /\ UNCHANGED <<level_idx, todo, next_urls, level_results>>
       ELSE /\ chain_pc' = "level"
            /\ level_idx' = level_idx + 1
            /\ todo' = current_urls'
            /\ next_urls' = <<>>
            /\ level_results' = <<>>
    /\ UNCHANGED <<source_url, fetch_count, levels, patterns_valid>>

NextChain ==
    \/ (ArunCall /\ UNCHANGED notChain)
    \/ (ArunOk /\ UNCHANGED notChain)
    \/ (ArunFail /\ UNCHANGED notChain)
    \/ (ArunReError /\ UNCHANGED notChain)
    \/ (LevelEnd /\ UNCHANGED notChain)

\* --------------------------------------- download_pdf.py: the semaphores
Tasks == 1 .. NumJsonlUrls
Links == 1 .. NumPdfLinks

\* asyncio.Semaphore.acquire proceeds only while the value is positive.
CanAcquireAlways(value) == TRUE
CanAcquire(value) == value > 0

\* Tasks inside `async with semaphore` of crawl_with_semaphore.
Crawling == {t \in Tasks : crawl_pc[t] \in {"crawling", "downloading"}}

\* Downloads of task t inside `async with semaphore` of download_with_semaphore.
Downloading(t) == {k \in Links : download_pc[t][k] = "running"}

SemIdleInit ==
    /\ crawl_pc = [t \in Tasks |-> "idle"]
    /\ semaphore = 0
    /\ total_processed = 0
    /\ download_pc = [t \in Tasks |-> [k \in Links |-> "none"]]
    /\ download_semaphore = [t \in Tasks |-> 0]

\* process_jsonl after `tasks = [crawl_with_semaphore(url, idx) ...]`: every
\* task waits at `async with semaphore`.
SemInit ==
    /\ crawl_pc = [t \in Tasks |-> "waiting"]
    /\ semaphore = MaxConcurrent
    /\ total_processed = 0
    /\ download_pc = [t \in Tasks |-> [k \in Links |-> "none"]]
    /\ download_semaphore = [t \in Tasks |-> 0]

\* crawl_with_semaphore enters `async with semaphore` and starts
\* crawl_and_download_pdfs (crawler.arun).
AcquireCrawl(t) ==
    /\ crawl_pc[t] = "waiting"
    /\ CanAcquire(semaphore)
    /\ semaphore' = semaphore - 1
    /\ crawl_pc' = [crawl_pc EXCEPT ![t] = "crawling"]
    /\ UNCHANGED <<total_processed, download_pc, download_semaphore>>

\* crawl_and_download_pdfs returns early: the crawl failed or the page has no
\* PDF link. The semaphore is released.
CrawlReturn(t) ==
    /\ crawl_pc[t] = "crawling"
    /\ crawl_pc' = [crawl_pc EXCEPT ![t] = "done"]
    /\ total_processed' = total_processed + 1
    /\ semaphore' = semaphore + 1
    /\ UNCHANGED <<download_pc, download_semaphore>>

\* crawl_and_download_pdfs raises: `async with` releases the semaphore and
\* gather(return_exceptions=True) keeps the exception.
CrawlRaise(t) ==
    /\ crawl_pc[t] = "crawling"
    /\ crawl_pc' = [crawl_pc EXCEPT ![t] = "done"]
    /\ semaphore' = semaphore + 1
    /\ UNCHANGED <<total_processed, download_pc, download_semaphore>>

\* The page has n PDF links: a semaphore is created and one
\* download_with_semaphore task per link is gathered.
CrawlOk(t) ==
    /\ crawl_pc[t] = "crawling"
    /\ \E n \in Links :
         download_pc' = [download_pc EXCEPT
                           ![t] = [k \in Links |->
                                     IF k <= n THEN "waiting" ELSE "none"]]
    /\ download_semaphore' = [download_semaphore EXCEPT
                                ![t] = DownloadConcurrent]
    /\ crawl_pc' = [crawl_pc EXCEPT ![t] = "downloading"]
    /\ UNCHANGED <<semaphore, total_processed>>

\* download_with_semaphore enters `async with semaphore` and calls
\* download_file.
AcquireDownload(t, k) ==
    /\ crawl_pc[t] = "downloading"
    /\ download_pc[t][k] = "waiting"
    /\ CanAcquire(download_semaphore[t])
    /\ download_semaphore' = [download_semaphore EXCEPT ![t] = @ - 1]
    /\ download_pc' = [download_pc EXCEPT ![t][k] = "running"]
    /\ UNCHANGED <<crawl_pc, semaphore, total_processed>>

\* download_file returns (a path or None): the semaphore is released.
DownloadReturn(t, k) ==
    /\ download_pc[t][k] = "running"
    /\ download_semaphore' = [download_semaphore EXCEPT ![t] = @ + 1]
    /\ download_pc' = [download_pc EXCEPT ![t][k] = "done"]
    /\ UNCHANGED <<crawl_pc, semaphore, total_processed>>

\* asyncio.gather(*tasks) of crawl_and_download_pdfs is complete: the call
\* returns and crawl_with_semaphore releases its semaphore.
GatherReturn(t) ==
    /\ crawl_pc[t] = "downloading"
    /\ \A k \in Links : download_pc[t][k] \in {"none", "done"}
    /\ crawl_pc' = [crawl_pc EXCEPT ![t] = "done"]
    /\ total_processed' = total_processed + 1
    /\ semaphore' = semaphore + 1
    /\ UNCHANGED <<download_pc, download_semaphore>>

NextSem ==
    \/ \E t \in Tasks :
         \/ (AcquireCrawl(t) /\ UNCHANGED notSem)
         \/ (CrawlReturn(t) /\ UNCHANGED notSem)
         \/ (CrawlRaise(t) /\ UNCHANGED notSem)
         \/ (CrawlOk(t) /\ UNCHANGED notSem)
         \/ (GatherReturn(t) /\ UNCHANGED notSem)
    \/ \E t \in Tasks : \E k \in Links :
         \/ (AcquireDownload(t, k) /\ UNCHANGED notSem)
         \/ (DownloadReturn(t, k) /\ UNCHANGED notSem)

\* ------------------------------- the services: run, gate, capture_page
total == NumRecords

\* The status part of a result record.
Outcomes == {"success", "http_error", "timeout", "error", "crash"}

\* `for attempt in range(max_attempts)` has no further round.
RoundsExhaustedEarly(a) == a >= max_attempts - 1
RoundsExhausted(a) == a >= max_attempts

\* Where _handle_cloudflare continues after `except Exception as e` of a
\* clearance attempt: the warning is logged and the round goes on.
AttemptHandlerPropagates == "raised"
AttemptHandler == "sleep"

\* `for retry in range(self.config.max_retries + 1)` has a further iteration.
HasNextRetryOffByOne(r) == r <= max_retries
HasNextRetry(r) == r < max_retries

\* capture_page after a response that is None or not ok: `continue`.
AfterHttpErrorStops(r) == "failed"
AfterHttpError(r) == IF HasNextRetry(r) THEN "goto" ELSE "failed"

\* capture_page after a timeout or an exception that is no browser crash:
\* sleep 2 s and retry while retry < max_retries.
AfterException(r) == IF HasNextRetry(r) THEN "sleep" ELSE "failed"

\* save_results is called every `every` records.
PeriodicSave(n, every) == n % every = 0

ServiceIdleInit ==
    /\ service = "none"
    /\ max_retries = 0
    /\ run_pc = "idle"
    /\ i = 0
    /\ session = 1
    /\ cleared_sessions = {}
    /\ results = <<>>
    /\ output_file = <<>>
    /\ since_fetch = "first"
    /\ gate_pc = "idle"
    /\ attempt = 0
    /\ challenged = FALSE
    /\ inspections = 0
    /\ hits = 0
    /\ attempt_errors = 0
    /\ gate_exc = "none"
    /\ cap_pc = "idle"
    /\ retry = 0
    /\ attempt_log = <<>>
    /\ result_status = "pending"
    /\ browser_crashed = FALSE
    /\ success_count = 0
    /\ failed_count = 0

\* What the output file can hold when run() starts: nothing, or the lines
\* an earlier run saved.
PriorOutputs == {<<>>, <<"failed">>}

\* run() after the browser and the page are created, before the first
\* page.goto(init_url).
ServiceInit ==
    /\ service \in {"capturer", "pdf"}
    /\ max_retries \in 0 .. MaxRetriesBound
    /\ service = "pdf" => max_retries = 0
    /\ run_pc = "init_goto"
    /\ i = 0
    /\ session = 1
    /\ cleared_sessions = {}
    /\ results = <<>>
    /\ output_file \in PriorOutputs
    /\ since_fetch = "first"
    /\ gate_pc = "idle"
    /\ attempt = 0
    /\ challenged = FALSE
    /\ inspections = 0
    /\ hits = 0
    /\ attempt_errors = 0
    /\ gate_exc = "none"
    /\ cap_pc = "idle"
    /\ retry = 0
    /\ attempt_log = <<>>
    /\ result_status = "pending"
    /\ browser_crashed = FALSE
    /\ success_count = 0
    /\ failed_count = 0

\* run: page.goto(init_url) returns and _handle_cloudflare is entered.
InitGotoOk ==
    /\ run_pc = "init_goto"
    /\ run_pc' = "gate"
    /\ gate_pc' = "inspect"
    /\ challenged' \in BOOLEAN
    /\ UNCHANGED <<service, max_retries, i, session, cleared_sessions, results,
                   output_file, attempt, inspections, hits, attempt_errors,
                   gate_exc, capVars>>
    /\ since_fetch' = "none"

\* run: page.goto(init_url) raises; the exception is logged and the record
\* loop starts without _handle_cloudflare having run.
InitGotoRaise ==
    /\ run_pc = "init_goto"
    /\ run_pc' = "loop"
    /\ UNCHANGED <<service, max_retries, i, session, cleared_sessions, results,
                   output_file, gateVars, capVars>>
    /\ since_fetch' = "none"

\* _handle_cloudflare: the marker test finds no marker: return True.
GateInspectClear ==
    /\ run_pc = "gate"
    /\ gate_pc = "inspect"
    /\ ~challenged
    /\ inspections' = inspections + 1
    /\ gate_pc' = "returned"
    /\ cleared_sessions' = cleared_sessions \cup {session}
    /\ run_pc' = "loop"
    /\ UNCHANGED <<service, max_retries, i, session, results, output_file,
                   attempt, challenged, hits, attempt_errors, gate_exc,
                   capVars>>
    /\ UNCHANGED since_fetch

\* _handle_cloudflare: the marker test finds markers: a clearance attempt
\* follows.
GateInspectChallenged ==
    /\ run_pc = "gate"
    /\ gate_pc = "inspect"
    /\ challenged
    /\ inspections' = inspections + 1
    /\ hits' = hits + 1
    /\ gate_pc' = "attempt"
    /\ UNCHANGED <<runVars, attempt, challenged, attempt_errors, gate_exc,
                   capVars>>
    /\ UNCHANGED since_fetch

\* _handle_cloudflare: page.title() or page.content() raises; these calls are
\* outside the try block, so run's `except Exception` logs it.
GateInspectRaise ==
    /\ run_pc = "gate"
    /\ gate_pc = "inspect"
    /\ gate_pc' = "raised"
    /\ gate_exc' = "inspect"
    /\ run_pc' = "loop"
    /\ UNCHANGED <<service, max_retries, i, session, cleared_sessions, results,
                   output_file, attempt, challenged, inspections, hits,
                   attempt_errors, capVars>>
    /\ UNCHANGED since_fetch

\* PDFDownloaderService._handle_cloudflare: the try block of a round (click
\* the checkbox, wait); it completes or raises, and the page may change.
GateAttempt ==
    /\ run_pc = "gate"
    /\ gate_pc = "attempt"
    /\ service = "pdf"
    /\ challenged' \in BOOLEAN
    /\ \E raised \in BOOLEAN :
         LET nxt == IF raised THEN AttemptHandler ELSE "sleep" IN
           /\ attempt_errors' = IF raised THEN attempt_errors + 1
                                ELSE attempt_errors
           /\ gate_pc' = nxt
           /\ gate_exc' = IF nxt = "raised" THEN "attempt" ELSE gate_exc
           /\ run_pc' = IF nxt = "raised" THEN "loop" ELSE run_pc
    /\ UNCHANGED <<service, max_retries, i, session, cleared_sessions, results,
                   output_file, attempt, inspections, hits, capVars>>
    /\ UNCHANGED since_fetch

\* PageCapturerService._handle_cloudflare: `await asyncio.sleep(5)`.
GateWait ==
    /\ run_pc = "gate"
    /\ gate_pc = "attempt"
    /\ service = "capturer"
    /\ challenged' \in BOOLEAN
    /\ gate_pc' = "sleep"
    /\ UNCHANGED <<runVars, attempt, inspections, hits, attempt_errors,
                   gate_exc, capVars>>
    /\ since_fetch' = "fixed"

\* End of a round: (pdf: `await asyncio.sleep(2)`) the for loop takes its next
\* value, or is over and the operator prompt is printed.
GateNextRound ==
    /\ run_pc = "gate"
    /\ gate_pc = "sleep"
    /\ attempt' = attempt + 1
    /\ challenged' \in (IF service = "pdf" THEN BOOLEAN ELSE {challenged})
    /\ gate_pc' = IF RoundsExhausted(attempt + 1) THEN "prompt" ELSE "inspect"
    /\ UNCHANGED <<runVars, inspections, hits, attempt_errors, gate_exc,
                   capVars>>
    /\ since_fetch' = IF service = "pdf" THEN "fixed" ELSE since_fetch

\* The operator presses Enter: return True, whatever the page shows.
GatePrompt ==
    /\ run_pc = "gate"
    /\ gate_pc = "prompt"
    /\ challenged' \in BOOLEAN
    /\ gate_pc' = "returned"
    /\ cleared_sessions' = cleared_sessions \cup {session}
    /\ run_pc' = "loop"
    /\ UNCHANGED <<service, max_retries, i, session, results, output_file,
                   attempt, inspections, hits, attempt_errors, gate_exc,
                   capVars>>
    /\ UNCHANGED since_fetch

\* PageCapturerService.run: capture_page is called for records[i].
CaptureStart ==
    /\ run_pc = "loop"
    /\ service = "capturer"
    /\ i < total
    /\ run_pc' = "capture"
    /\ cap_pc' = "goto"
    /\ retry' = 0
    /\ attempt_log' = <<>>
    /\ result_status' = "pending"
    /\ browser_crashed' = FALSE
    /\ UNCHANGED <<service, max_retries, i, session, cleared_sessions, results,
                   output_file, gateVars, success_count, failed_count>>
    /\ UNCHANGED since_fetch

\* capture_page: one iteration of the retry loop: page.goto and the capture
\* of the page, with its outcome.
CapAttempt ==
    /\ run_pc = "capture"
    /\ cap_pc = "goto"
    /\ \E o \in Outcomes :
         /\ o = "crash" => session <= MaxRestarts
         /\ attempt_log' = Append(attempt_log, o)
         /\ LET nxt == CASE o = "success" -> "success"
                         [] o = "crash" -> "crashed"
                         [] o = "http_error" -> AfterHttpError(retry)
                         [] OTHER -> AfterException(retry)
            IN
              /\ cap_pc' = IF nxt \in {"goto", "sleep"} THEN nxt ELSE "returned"
              /\ retry' = IF nxt = "goto" THEN retry + 1 ELSE retry
              /\ result_status' = IF nxt \in {"success", "failed"} THEN nxt
                                  ELSE result_status
              /\ browser_crashed' = (nxt = "crashed")
              /\ success_count' = IF nxt = "success" THEN success_count + 1
                                  ELSE success_count
              /\ failed_count' = IF nxt = "failed" THEN failed_count + 1
                                 ELSE failed_count
    /\ UNCHANGED <<runVars, gateVars>>
    /\ since_fetch' = "none"

\* capture_page: `await asyncio.sleep(2)` before the next retry.
CapSleep ==
    /\ run_pc = "capture"
    /\ cap_pc = "sleep"
    /\ cap_pc' = "goto"
    /\ retry' = retry + 1
    /\ UNCHANGED <<runVars, gateVars, attempt_log, result_status,
                   browser_crashed, success_count, failed_count>>
    /\ since_fetch' = "fixed"

\* PageCapturerService.run: `if result.get("browser_crashed")`.
CrashIgnored(crashed) == FALSE
CrashDetected(crashed) == crashed

\* PageCapturerService.run: the result is flagged browser_crashed: the browser
\* is closed and created again, and the same record is processed again.
BrowserRestart ==
    /\ run_pc = "capture"
    /\ cap_pc = "returned"
    /\ CrashDetected(browser_crashed)
    /\ session' = session + 1
    /\ run_pc' = "loop"
    /\ cap_pc' = "idle"
    /\ UNCHANGED <<service, max_retries, i, cleared_sessions, results,
                   output_file, gateVars, retry, attempt_log, result_status,
                   browser_crashed, success_count, failed_count>>
    /\ since_fetch' = "fixed"

\* PageCapturerService.run: the result is appended, saved every 20 records,
\* and the loop moves to the next record.
RecordResult ==
    /\ run_pc = "capture"
    /\ cap_pc = "returned"
    /\ ~CrashDetected(browser_crashed)
    /\ results' = Append(results, result_status)
    /\ output_file' = IF PeriodicSave(i + 1, CapturerSaveEvery) THEN results'
                      ELSE output_file
    /\ i' = i + 1
    /\ run_pc' = "loop"
    /\ cap_pc' = "idle"
    /\ UNCHANGED <<service, max_retries, session, cleared_sessions, gateVars,
                   retry, attempt_log, result_status, browser_crashed,
                   success_count, failed_count>>
    /\ since_fetch' = IF i < total - 1 THEN "request_delay" ELSE since_fetch

\* PDFDownloaderService.run: download_pdf_with_browser for records[i] ends
\* before any page.goto: the file exists, or the preparation raised (None is
\* returned and nothing is appended).
DownloadSkip ==
    /\ run_pc = "loop"
    /\ service = "pdf"
    /\ i < total
    /\ \E o \in {"exists", "none"} :
         results' = IF o = "none" THEN results ELSE Append(results, o)
    /\ output_file' = IF PeriodicSave(i + 1, DownloaderSaveEvery) THEN results'
                      ELSE output_file
    /\ i' = i + 1
    /\ UNCHANGED <<service, max_retries, run_pc, session, cleared_sessions,
                   gateVars, capVars>>
    /\ since_fetch' = "request_delay"

\* download_pdf_with_browser: page.goto(pdf_url) is issued.
DownloadGoto ==
    /\ run_pc = "loop"
    /\ service = "pdf"
    /\ i < total
    /\ run_pc' = "download"
    /\ UNCHANGED <<service, max_retries, i, session, cleared_sessions, results,
                   output_file, gateVars, capVars>>
    /\ UNCHANGED since_fetch

\* download_pdf_with_browser: page.goto returned or raised; the record is
\* appended as downloaded or failed, saved every 50 records.
DownloadDone ==
    /\ run_pc = "download"
    /\ \E o \in {"downloaded", "failed"} : results' = Append(results, o)
    /\ output_file' = IF PeriodicSave(i + 1, DownloaderSaveEvery) THEN results'
                      ELSE output_file
    /\ i' = i + 1
    /\ run_pc' = "loop"
    /\ UNCHANGED <<service, max_retries, session, cleared_sessions, gateVars,
                   capVars>>
    /\ since_fetch' = "request_delay"

\* run: the loop is over: the browser is closed and the results are saved.
RunEnd ==
    /\ run_pc = "loop"
    /\ i = total
    /\ output_file' = results
    /\ run_pc' = "done"
    /\ UNCHANGED <<service, max_retries, i, session, cleared_sessions, results,
                   gateVars, capVars>>
    /\ UNCHANGED since_fetch

NextService ==
    \/ (InitGotoOk /\ UNCHANGED notService)
    \/ (InitGotoRaise /\ UNCHANGED notService)
    \/ (GateInspectClear /\ UNCHANGED notService)
    \/ (GateInspectChallenged /\ UNCHANGED notService)
    \/ (GateInspectRaise /\ UNCHANGED notService)
    \/ (GateAttempt /\ UNCHANGED notService)
    \/ (GateWait /\ UNCHANGED notService)
    \/ (GateNextRound /\ UNCHANGED notService)
    \/ (GatePrompt /\ UNCHANGED notService)
    \/ (CaptureStart /\ UNCHANGED notService)
    \/ (CapAttempt /\ UNCHANGED notService)
    \/ (CapSleep /\ UNCHANGED notService)
    \/ (BrowserRestart /\ UNCHANGED notService)
    \/ (RecordResult /\ UNCHANGED notService)
    \/ (DownloadSkip /\ UNCHANGED notService)
    \/ (DownloadGoto /\ UNCHANGED notService)
    \/ (DownloadDone /\ UNCHANGED notService)
    \/ (RunEnd /\ UNCHANGED notService)

\* ------------------------------------- the marker test of the two gates
\* Texts a page title can contain ("zh:please wait" stands for the Chinese
\* title text of the challenge page).
TitleTexts == {"zh:please wait", "Just a moment"}

\* Texts a page body can contain ("zh:confirm you are human" stands for the
\* Chinese text tested by the PDF gate only).
ContentTexts ==
    {"Cloudflare", "zh:confirm you are human", "Verify you are human",
     "checking if the connection is secure"}

\* The texts `in title` is tested for.
TitleMarkers == {"zh:please wait", "Just a moment"}

\* The texts `in content` is tested for, by each gate.
ContentMarkers(svc) ==
    IF svc = "pdf"
      THEN {"Cloudflare", "zh:confirm you are human", "Verify you are human"}
      ELSE {"Cloudflare", "Verify you are human"}

\* is_cloudflare = (... in title or ... in content).
IsCloudflare(svc, title, content) ==
    \/ title \cap TitleMarkers # {}
    \/ content \cap ContentMarkers(svc) # {}

MarkerIdleInit ==
    /\ marker_pc = "idle"
    /\ marker_service = "none"
    /\ page_title = {}
    /\ page_content = {}
    /\ is_cloudflare = FALSE

\* _handle_cloudflare is entered on some page.
MarkerInit ==
    /\ marker_pc = "page"
    /\ marker_service \in {"capturer", "pdf"}
    /\ page_title \in SUBSET TitleTexts
    /\ page_content \in SUBSET ContentTexts
    /\ is_cloudflare = FALSE

\* The first inspection: title and content are read and tested.
MarkerTest ==
    /\ marker_pc = "page"
    /\ is_cloudflare' = IsCloudflare(marker_service, page_title, page_content)
    /\ marker_pc' = "tested"
    /\ UNCHANGED <<marker_service, page_title, page_content>>

NextMarker == MarkerTest /\ UNCHANGED notMarker

\* ---------------------------- CrawlerService.crawl and run_crawl_task
RawLinks == 0 .. (NumRawLinks - 1)

\* urljoin(self.base_url, url): an absolute URL has two spellings on a page
\* (say, a relative and an absolute one).
Urljoin(link) == link \div 2

AbsUrls == {Urljoin(link) : link \in RawLinks}

\* URLProcessor.filter_urls: the set of absolute URLs the pattern finds.
FilterUrls(links) ==
    {Urljoin(link) : link \in links} \cap regex_matches

\* JSONLStorage.load_existing_urls: the matched_url of every line.
LoadExistingUrls(log) == ToSet(log)

\* new_urls = [url for url in matched_urls if url not in existing_urls].
NewUrlsAll(matched, existing) == matched
NewUrls(matched, existing) == SelectSeq(matched, LAMBDA u : u \notin existing)

\* What run_crawl_task reports when crawler_main returned a summary.
TaskSuccessOf(success) == "true"

CrawlIdleInit ==
    /\ crawler_pc = "idle"
    /\ regex_matches = {}
    /\ all_links = {}
    /\ prev_links = {}
    /\ log_file = <<>>
    /\ log_at_start = <<>>
    /\ summary_success = FALSE
    /\ summary_error = "none"
    /\ prev_success = FALSE
    /\ task_success = "none"
    /\ crawl_runs = 0
    /\ total_links = 0
    /\ matched_links = 0
    /\ saved_links = 0

\* run_crawl_task has called crawler_main; the configuration is loaded and
\* crawl is called.
CrawlInit ==
    /\ crawler_pc = "arun"
    /\ regex_matches \in SUBSET AbsUrls
    /\ all_links = {}
    /\ prev_links = {}
    /\ log_file = <<>>
    /\ log_at_start = <<>>
    /\ summary_success = FALSE
    /\ summary_error = "none"
    /\ prev_success = FALSE
    /\ task_success = "none"
    /\ crawl_runs = 1
    /\ total_links = 0
    /\ matched_links = 0
    /\ saved_links = 0

\* crawl: Path(cache_path).mkdir(...) or the building of the browser and
\* crawler configurations raises (lines 578-581, before the try block): the
\* exception leaves crawl and crawler_service.main.
CrawlSetupRaise ==
    /\ crawler_pc = "arun"
    /\ crawler_pc' = "raised"
    /\ UNCHANGED <<regex_matches, all_links, prev_links, log_file, log_at_start,
                   summary_success, summary_error, prev_success, task_success,
                   crawl_runs, total_links, matched_links, saved_links>>

\* crawl: arun fails (or raises): the exception is caught and recorded in
\* the summary.
CrawlArunFail ==
    /\ crawler_pc = "arun"
    /\ summary_error' = "crawl"
    /\ crawler_pc' = "returned"
    /\ UNCHANGED <<regex_matches, all_links, prev_links, log_file, log_at_start,
                   summary_success, prev_success, task_success, crawl_runs,
                   total_links, matched_links, saved_links>>

\* crawl: arun succeeds; the links of the page are extracted and deduplicated.
CrawlArunOk ==
    /\ crawler_pc = "arun"
    /\ all_links' \in SUBSET RawLinks
    /\ total_links' = Cardinality(all_links')
    /\ crawler_pc' = "save"
    /\ UNCHANGED <<regex_matches, prev_links, log_file, log_at_start,
                   summary_success, summary_error, prev_success, task_success,
                   crawl_runs, matched_links, saved_links>>

\* crawl: filter, drop the URLs already in the log, append the new ones.
\* The write succeeds, or fails after some of the lines; the failure is
\* caught by `except Exception` and recorded in the summary.
CrawlSave ==
    /\ crawler_pc = "save"
    /\ LET matched_urls == SetToList(FilterUrls(all_links))
           existing_urls == LoadExistingUrls(log_file)
           new_urls == NewUrls(matched_urls, existing_urls)
       IN
         /\ matched_links' = Len(matched_urls)
         /\ \/ /\ log_file' = log_file \o new_urls
               /\ saved_links' = Len(new_urls)
               /\ summary_success' = TRUE
               /\ summary_error' = summary_error
            \/ /\ new_urls # <<>>
               /\ \E k \in 0 .. (Len(new_urls) - 1) :
                    log_file' = log_file \o SubSeq(new_urls, 1, k)
               /\ saved_links' = saved_links
               /\ summary_success' = FALSE
               /\ summary_error' = "write"
    /\ crawler_pc' = "returned"
    /\ UNCHANGED <<regex_matches, all_links, prev_links, log_at_start,
                   prev_success, task_success, crawl_runs, total_links>>

\* crawler_service.main logs the summary and returns it; run_crawl_task
\* returns {"success": True, "result": result}.
TaskReturn ==
    /\ crawler_pc = "returned"
    /\ task_success' = TaskSuccessOf(summary_success)
    /\ crawler_pc' = "task_done"
    /\ UNCHANGED <<regex_matches, all_links, prev_links, log_file, log_at_start,
                   summary_success, summary_error, prev_success, crawl_runs,
                   total_links, matched_links, saved_links>>

\* An exception left crawler_main: run_crawl_task's `except Exception`
\* returns {"success": False, "error": ...}.
TaskExcept ==
    /\ crawler_pc = "raised"
    /\ task_success' = "false"
    /\ crawler_pc' = "task_done"
    /\ UNCHANGED <<regex_matches, all_links, prev_links, log_file, log_at_start,
                   summary_success, summary_error, prev_success, crawl_runs,
                   total_links, matched_links, saved_links>>

\* The same task is run again, against the log the earlier runs left.
CrawlAgain ==
    /\ crawler_pc = "task_done"
    /\ crawl_runs < MaxCrawlRuns
    /\ crawl_runs' = crawl_runs + 1
    /\ crawler_pc' = "arun"
    /\ log_at_start' = log_file
    /\ prev_links' = all_links
    /\ prev_success' = summary_success
    /\ all_links' = {}
    /\ summary_success' = FALSE
    /\ summary_error' = "none"
    /\ task_success' = "none"
    /\ total_links' = 0
    /\ matched_links' = 0
    /\ saved_links' = 0
    /\ UNCHANGED <<regex_matches, log_file>>

NextCrawl ==
    \/ (CrawlSetupRaise /\ UNCHANGED notCrawl)
    \/ (CrawlArunFail /\ UNCHANGED notCrawl)
    \/ (CrawlArunOk /\ UNCHANGED notCrawl)
    \/ (CrawlSave /\ UNCHANGED notCrawl)
    \/ (TaskReturn /\ UNCHANGED notCrawl)
    \/ (TaskExcept /\ UNCHANGED notCrawl)
    \/ (CrawlAgain /\ UNCHANGED notCrawl)

\* ------------------- the saves of the service runs, and a killed process
\* The two run loops once more, counting records instead of holding them, so
\* that the saves made every 20 and every 50 records are reached.
SaveEvery(svc) ==
    IF svc = "pdf" THEN DownloaderSaveEvery ELSE CapturerSaveEvery

FlushIdleInit ==
    /\ flush_pc = "idle"
    /\ flush_service = "none"
    /\ processed = 0
    /\ held = 0
    /\ on_disk = 0
    /\ flushed = 0

\* run() at the start of the record loop; the output file holds nothing of
\* this run.
FlushInit ==
    /\ flush_pc = "loop"
    /\ flush_service \in {"capturer", "pdf"}
    /\ processed = 0
    /\ held = 0
    /\ on_disk = 0
    /\ flushed = 0

\* One record is processed: its result is appended (PDF: unless it is None),
\* and save_results is called if the count is a multiple of 20 / 50.
ProcessRecord ==
    /\ flush_pc = "loop"
    /\ processed < NumFlushRecords
    /\ processed' = processed + 1
    /\ \E appended \in (IF flush_service = "pdf" THEN {0, 1} ELSE {1}) :
         held' = held + appended
    /\ flush_pc' = IF PeriodicSave(processed + 1, SaveEvery(flush_service))
                     THEN "open" ELSE "loop"
    /\ UNCHANGED <<flush_service, on_disk, flushed>>

\* The loop is over: the final save_results is called.
FinalSave ==
    /\ flush_pc = "loop"
    /\ processed = NumFlushRecords
    /\ flush_pc' = "final_open"
    /\ UNCHANGED <<flush_service, processed, held, on_disk, flushed>>

\* save_results: open(output_path, "w") truncates the file.
SaveOpen ==
    /\ flush_pc \in {"open", "final_open"}
    /\ on_disk' = 0
    /\ flush_pc' = IF flush_pc = "open" THEN "write" ELSE "final_write"
    /\ UNCHANGED <<flush_service, processed, held, flushed>>

\* save_results: every record of self.results is written and the file is
\* closed.
SaveWrite ==
    /\ flush_pc \in {"write", "final_write"}
    /\ on_disk' = held
    /\ flushed' = held
    /\ flush_pc' = IF flush_pc = "write" THEN "loop" ELSE "done"
    /\ UNCHANGED <<flush_service, processed, held>>

\* The process is killed; a write in progress leaves some of the lines.
Kill ==
    /\ flush_pc \in {"loop", "open", "final_open", "write", "final_write"}
    /\ flush_pc' = "killed"
    /\ on_disk' \in (IF flush_pc \in {"write", "final_write"}
                       THEN {0, held} ELSE {on_disk})
    /\ UNCHANGED <<flush_service, processed, held, flushed>>

NextFlush ==
    \/ (ProcessRecord /\ UNCHANGED notFlush)
    \/ (FinalSave /\ UNCHANGED notFlush)
    \/ (SaveOpen /\ UNCHANGED notFlush)
    \/ (SaveWrite /\ UNCHANGED notFlush)
    \/ (Kill /\ UNCHANGED notFlush)

\* ----------------- validate_and_extract: resolve and filter the candidates
Paths == 1 .. NumPaths

\* A candidate string, by how it starts: "http" (absolute), "/" (rooted) or
\* anything else (relative), followed by one of the paths.
LinkKinds == {"http", "/", "relative"}

Candidates == LinkKinds \X Paths

\* if link.startswith('http'): full_url = link
\* elif link.startswith('/'): full_url = urljoin(base_url, link)
\* else: full_url = urljoin(source_url, link)
FullUrl(link) ==
    CASE link[1] = "http" -> link
      [] link[1] = "/" -> <<"base_url+", link[2]>>
      [] OTHER -> <<"source_url+", link[2]>>

\* How a string can start: a candidate's start, or a resolved URL's.
StringKinds == LinkKinds \cup {"base_url+", "source_url+"}

\* A filter_pattern: not declared (empty), or a regex, given by the starts
\* and the paths of the strings that re.match accepts.
FilterPatterns ==
    {[declared |-> FALSE, kinds |-> {}, paths |-> {}]}
      \cup {[declared |-> TRUE, kinds |-> K, paths |-> P] :
              K \in SUBSET StringKinds, P \in SUBSET Paths}

\* re.match(filter_pattern, string) is not None.
ReMatch(pattern, string) ==
    string[1] \in pattern.kinds /\ string[2] \in pattern.paths

\* The test of lines 113-115 and 131.
SurvivesFullUrlOnly(pattern, link) ==
    IF pattern.declared THEN ReMatch(pattern, FullUrl(link)) ELSE TRUE
Survives(pattern, link) ==
    IF pattern.declared
      THEN ReMatch(pattern, FullUrl(link)) \/ ReMatch(pattern, link)
      ELSE TRUE

\* for link in raw_links: ... level_results.append({...}).
RECURSIVE FilterLinks(_, _)
FilterLinks(pattern, links) ==
    IF links = {} THEN <<>>
    ELSE LET link == CHOOSE l \in links : TRUE
             rest == FilterLinks(pattern, links \ {link})
         IN IF Survives(pattern, link)
              THEN <<[url |-> FullUrl(link), matched_text |-> link]>> \o rest
              ELSE rest

FilterIdleInit ==
    /\ filter_pc = "idle"
    /\ filter_pattern = [declared |-> FALSE, kinds |-> {}, paths |-> {}]
    /\ raw_links = {}
    /\ survivors = <<>>

\* A page was crawled and raw_links = list(set(raw_links)) computed.
FilterInit ==
    /\ filter_pc = "input"
    /\ filter_pattern \in FilterPatterns
    /\ raw_links \in SUBSET Candidates
    /\ survivors = <<>>

\* The loop over raw_links.
ApplyFilter ==
    /\ filter_pc = "input"
    /\ survivors' = FilterLinks(filter_pattern, raw_links)
    /\ filter_pc' = "filtered"
    /\ UNCHANGED <<filter_pattern, raw_links>>

NextFilter == ApplyFilter /\ UNCHANGED notFilter

\* ------------- one page of validate_and_extract: matches to level records
\* A web of two hosts; base_url is on BaseHost.  A page is in the root
\* directory of its host or in a subdirectory.
BaseHost == "base"
Hosts == {BaseHost, "other"}
Dirs == {"/", "/d/"}

\* The absolute URL http://<host><dir><path>.
AbsUrl(host, dir, path) == <<"http://", host, dir, path>>

\* A match on which lines 105-110 raise: a tuple, which re.findall returns
\* for a pattern with several groups (AttributeError: no startswith), or a
\* string such as "//[x/a.html" (urljoin raises ValueError).
Unexpected == <<"unexpected">>

\* What re.findall can return for a page: absolute URLs, "/<path>",
\* "<path>", a relative path whose first letters are http ("httpdocs/<path>",
\* written <<"http", path>>), and matches of unexpected structure.
PageMatches ==
    {AbsUrl(h, "/", p) : h \in Hosts, p \in Paths}
      \cup ({"/", "", "http"} \X Paths)
      \cup {Unexpected}

\* link.startswith('http') and link.startswith('/').
StartsWithHttp(link) == link[1] \in {"http://", "http"}
StartsWithSlash(link) == link[1] = "/"

\* Lines 105-110: full_url, for a link found on the page `source`.
ResolveLink(link, source) ==
    IF StartsWithHttp(link) THEN link
    ELSE IF StartsWithSlash(link) THEN AbsUrl(BaseHost, "/", link[2])
    ELSE AbsUrl(source[1], source[2], link[2])

\* The filter patterns of the page model: none, or one that matches the
\* strings that start with a slash.
ExtractFilters == {"", "^/"}

\* Lines 113-115 and 131: no filter_pattern, or
\* re.match(filter_pattern, full_url) or re.match(filter_pattern, link).
Keeps(pattern, full_url, link) ==
    \/ pattern = ""
    \/ pattern = "^/" /\ (StartsWithSlash(full_url) \/ StartsWithSlash(link))

\* The lists of page matches of length at most n.
RECURSIVE MatchLists(_)
MatchLists(n) ==
    IF n = 0 THEN {<<>>}
    ELSE LET shorter == MatchLists(n - 1) IN
         shorter \cup {Append(xs, m) : xs \in shorter, m \in PageMatches}

ExtractIdleInit ==
    /\ extract_pc = "idle"
    /\ page_matches = <<>>
    /\ page_source = <<BaseHost, "/">>
    /\ page_filter = ""
    /\ pending = {}
    /\ page_results = <<>>
    /\ page_next = {}

\* crawler.arun has returned the page (result.success); the level has an
\* extract_pattern.
ExtractInit ==
    /\ extract_pc = "findall"
    /\ page_matches \in MatchLists(MaxMatches)
    /\ page_source \in Hosts \X Dirs
    /\ page_filter \in ExtractFilters
    /\ pending = {}
    /\ page_results = <<>>
    /\ page_next = {}

\* raw_links = re.findall(...); raw_links = list(set(raw_links)).
FindAll ==
    /\ extract_pc = "findall"
    /\ pending' = ToSet(page_matches)
    /\ extract_pc' = "loop"
    /\ UNCHANGED <<page_matches, page_source, page_filter, page_results,
                   page_next>>

\* One iteration of `for link in raw_links` (the order of list(set(...)) is
\* any): resolve, filter, record; an exception leaves the loop for the
\* handler of lines 156-158.
NextLink ==
    /\ extract_pc = "loop"
    /\ \E link \in pending :
         IF link = Unexpected
         THEN /\ extract_pc' = "except"
              /\ UNCHANGED <<pending, page_results, page_next>>
         ELSE LET full_url == ResolveLink(link, page_source) IN
              /\ pending' = pending \ {link}
              /\ IF Keeps(page_filter, full_url, link)
                 THEN /\ page_results' =
                            Append(page_results,
                                   [url |-> full_url, matched_text |-> link])
                      /\ page_next' = page_next \cup {full_url}
                 ELSE UNCHANGED <<page_results, page_next>>
              /\ UNCHANGED extract_pc
    /\ UNCHANGED <<page_matches, page_source, page_filter>>

\* The page was the last of the level: the loop over raw_links is over, or
\* the exception was logged; lines 160-170 deduplicate the level's records
\* and next_urls.
PageEnd ==
    /\ \/ extract_pc = "loop" /\ pending = {}
       \/ extract_pc = "except"
    /\ page_results' = Deduplicate(page_results)
    /\ extract_pc' = "done"
    /\ UNCHANGED <<page_matches, page_source, page_filter, pending, page_next>>

NextExtract ==
    \/ (FindAll /\ UNCHANGED notExtract)
    \/ (NextLink /\ UNCHANGED notExtract)
    \/ (PageEnd /\ UNCHANGED notExtract)

\* ------------- the record loops of the two services, without their bounds
\* PageCapturerService.run and PDFDownloaderService.run once more, keeping
\* only the position in the loop: nothing counts the restarts of a browser.
LiveIdleInit ==
    /\ live_pc = "idle"
    /\ live_service = "none"
    /\ live_total = 0
    /\ live_i = 0

\* run has loaded a non-empty list of records and created the browser.
LiveInit ==
    /\ live_pc = "init"
    /\ live_service \in {"capturer", "pdf"}
    /\ live_total \in 1 .. NumLiveRecords
    /\ live_i = 0

\* The initial page.goto and _handle_cloudflare return, or raise into the
\* handler that logs the exception; the operator was not asked.
LiveInitDone ==
    /\ live_pc = "init"
    /\ live_pc' = "loop"
    /\ UNCHANGED <<live_service, live_total, live_i>>

\* _handle_cloudflare asks the operator and waits for the answer.
LivePrompt ==
    /\ live_pc = "init"
    /\ live_pc' = "prompt"
    /\ UNCHANGED <<live_service, live_total, live_i>>

\* The operator answers the prompt.
LiveAnswer ==
    /\ live_pc = "prompt"
    /\ live_pc' = "loop"
    /\ UNCHANGED <<live_service, live_total, live_i>>

\* capture_page / download_pdf_with_browser returns for records[i] with an
\* outcome that is recorded (or dropped); save, pause, i += 1.
LiveRecorded ==
    /\ live_pc = "loop"
    /\ live_i < live_total
    /\ live_i' = live_i + 1
    /\ UNCHANGED <<live_pc, live_service, live_total>>

\* capture_page returns a result with browser_crashed set.
LiveCrashed ==
    /\ live_pc = "loop"
    /\ live_service = "capturer"
    /\ live_i < live_total
    /\ live_pc' = "restart"
    /\ UNCHANGED <<live_service, live_total, live_i>>

\* browser.close(), sleep(3), _create_browser, `continue`: i is not changed.
LiveRestart ==
    /\ live_pc = "restart"
    /\ live_pc' = "loop"
    /\ UNCHANGED <<live_service, live_total, live_i>>

\* The loop is over: browser.close(), the final save, return.
LiveEnd ==
    /\ live_pc = "loop"
    /\ live_i = live_total
    /\ live_pc' = "done"
    /\ UNCHANGED <<live_service, live_total, live_i>>

NextLive ==
    \/ (LiveInitDone /\ UNCHANGED notLive)
    \/ (LivePrompt /\ UNCHANGED notLive)
    \/ (LiveAnswer /\ UNCHANGED notLive)
    \/ (LiveRecorded /\ UNCHANGED notLive)
    \/ (LiveCrashed /\ UNCHANGED notLive)
    \/ (LiveRestart /\ UNCHANGED notLive)
    \/ (LiveEnd /\ UNCHANGED notLive)

\* ------------------------------------------------------ run.main (run.py)
CrawlTasks == 1 .. NumCrawlTasks

\* The phases run for the crawl tasks: one per task that --task selects and
\* that is enabled (lines 349-360).
CrawlPhases ==
    LET selected ==
          SelectSeq([k \in CrawlTasks |-> k], LAMBDA k : crawl_enabled[k])
    IN [j \in 1 .. Len(selected) |-> "crawl"]

\* The conditions of lines 346, 368-369 and 374-375.
RunsCrawl == ~capture_only /\ ~download_only
RunsCapture ==
    (~crawl_only /\ ~download_only /\ capture_enabled) \/ capture_only
RunsDownload ==
    (~crawl_only /\ ~capture_only /\ download_enabled) \/ download_only

MainIdleInit ==
    /\ main_pc = "idle"
    /\ crawl_only = FALSE
    /\ capture_only = FALSE
    /\ download_only = FALSE
    /\ crawl_enabled = [k \in CrawlTasks |-> FALSE]
    /\ capture_enabled = FALSE
    /\ download_enabled = FALSE
    /\ phases_run = <<>>

\* The arguments are parsed and the configuration is loaded.
MainInit ==
    /\ main_pc = "crawl"
    /\ crawl_only \in BOOLEAN
    /\ capture_only \in BOOLEAN
    /\ download_only \in BOOLEAN
    /\ crawl_enabled \in [CrawlTasks -> BOOLEAN]
    /\ capture_enabled \in BOOLEAN
    /\ download_enabled \in BOOLEAN
    /\ phases_run = <<>>

\* Lines 346-365: the crawl tasks.
MainCrawl ==
    /\ main_pc = "crawl"
    /\ phases_run' =
         IF RunsCrawl THEN phases_run \o CrawlPhases ELSE phases_run
    /\ main_pc' = "capture"
    /\ UNCHANGED <<crawl_only, capture_only, download_only, crawl_enabled,
                   capture_enabled, download_enabled>>

\* Lines 368-371: the capture task.
MainCapture ==
    /\ main_pc = "capture"
    /\ phases_run' =
         IF RunsCapture THEN Append(phases_run, "capture") ELSE phases_run
    /\ main_pc' = "download"
    /\ UNCHANGED <<crawl_only, capture_only, download_only, crawl_enabled,
                   capture_enabled, download_enabled>>

\* Lines 374-377: the download task; then the summary is printed.
MainDownload ==
    /\ main_pc = "download"
    /\ phases_run' =
         IF RunsDownload THEN Append(phases_run, "download") ELSE phases_run
    /\ main_pc' = "done"
    /\ UNCHANGED <<crawl_only, capture_only, download_only, crawl_enabled,
                   capture_enabled, download_enabled>>

NextMain ==
    \/ (MainCrawl /\ UNCHANGED notMain)
    \/ (MainCapture /\ UNCHANGED notMain)
    \/ (MainDownload /\ UNCHANGED notMain)

\* --------------------------------------- download_file (download_pdf.py)
FileTasks == 1 .. NumFileTasks

FileIdleInit ==
    /\ file_pc = [t \in FileTasks |-> "idle"]
    /\ file_path = [t \in FileTasks |-> 1]
    /\ file_state = [p \in Paths |-> "absent"]
    /\ file_semaphore = 0
    /\ writers = [p \in Paths |-> {}]
    /\ reports = {}

\* asyncio.gather has created one download_with_semaphore task per URL; each
\* URL maps to a filepath <output_dir>/<year>/<filename>; a file may be left
\* from an earlier run.
FileInit ==
    /\ file_pc = [t \in FileTasks |-> "queued"]
    /\ file_path \in [FileTasks -> Paths]
    /\ file_state \in [Paths -> {"absent", "complete"}]
    /\ file_semaphore = FileConcurrent
    /\ writers = [p \in Paths |-> {}]
    /\ reports = {}

\* async with semaphore: ... session.get(url) is awaited.
FileAcquire(t) ==
    /\ file_pc[t] = "queued"
    /\ file_semaphore > 0
    /\ file_semaphore' = file_semaphore - 1
    /\ file_pc' = [file_pc EXCEPT ![t] = "get"]
    /\ UNCHANGED <<file_path, file_state, writers, reports>>

\* session.get raises or the status is not 200: download_file returns None.
FileGetFail(t) ==
    /\ file_pc[t] = "get"
    /\ file_pc' = [file_pc EXCEPT ![t] = "returned"]
    /\ file_semaphore' = file_semaphore + 1
    /\ UNCHANGED <<file_path, file_state, writers, reports>>

\* Status 200, lines 29-52 up to `await response.read()`: the path exists and
\* is returned, or open(filepath, 'wb') creates the file, empty.
FileGetOk(t) ==
    /\ file_pc[t] = "get"
    /\ LET p == file_path[t] IN
         IF file_state[p] # "absent"
         THEN /\ reports' = reports \cup
                     {[task |-> t, path |-> p, said |-> "exists",
                       state |-> file_state[p]]}
              /\ file_pc' = [file_pc EXCEPT ![t] = "returned"]
              /\ file_semaphore' = file_semaphore + 1
              /\ UNCHANGED <<file_state, writers>>
         ELSE /\ file_state' = [file_state EXCEPT ![p] = "empty"]
              /\ writers' = [writers EXCEPT ![p] = @ \cup {t}]
              /\ file_pc' = [file_pc EXCEPT ![t] = "reading"]
              /\ UNCHANGED <<file_semaphore, reports>>
    /\ UNCHANGED file_path

\* response.read() returns: the body is written, the file closed and the
\* path returned.
FileReadOk(t) ==
    /\ file_pc[t] = "reading"
    /\ LET p == file_path[t] IN
         /\ file_state' = [file_state EXCEPT ![p] = "complete"]
         /\ reports' = reports \cup
                {[task |-> t, path |-> p, said |-> "downloaded",
                  state |-> "complete"]}
    /\ file_pc' = [file_pc EXCEPT ![t] = "returned"]
    /\ file_semaphore' = file_semaphore + 1
    /\ UNCHANGED <<file_path, writers>>

\* response.read() raises: the file is closed as it is and download_file
\* returns None.
FileReadFail(t) ==
    /\ file_pc[t] = "reading"
    /\ file_pc' = [file_pc EXCEPT ![t] = "returned"]
    /\ file_semaphore' = file_semaphore + 1
    /\ UNCHANGED <<file_path, file_state, writers, reports>>

NextFile ==
    \/ \E t \in FileTasks : FileAcquire(t) /\ UNCHANGED notFile
    \/ \E t \in FileTasks : FileGetFail(t) /\ UNCHANGED notFile
    \/ \E t \in FileTasks : FileGetOk(t) /\ UNCHANGED notFile
    \/ \E t \in FileTasks : FileReadOk(t) /\ UNCHANGED notFile
    \/ \E t \in FileTasks : FileReadFail(t) /\ UNCHANGED notFile

\* ----------------------------------------------------- the specifications
NewerIdleInit ==
    ExtractIdleInit /\ LiveIdleInit /\ MainIdleInit /\ FileIdleInit

OthersIdleInit ==
    /\ MarkerIdleInit /\ CrawlIdleInit /\ FlushIdleInit /\ FilterIdleInit
    /\ NewerIdleInit

InitChain == ChainInit /\ SemIdleInit /\ ServiceIdleInit /\ OthersIdleInit

SpecChain == InitChain /\ [][NextChain]_vars

InitChainAnyOrder ==
    ChainAnyOrderInit /\ SemIdleInit /\ ServiceIdleInit /\ OthersIdleInit

SpecChainAnyOrder == InitChainAnyOrder /\ [][NextChain]_vars

InitSem == SemInit /\ ChainIdleInit /\ ServiceIdleInit /\ OthersIdleInit

SpecSem == InitSem /\ [][NextSem]_vars

InitService == ServiceInit /\ ChainIdleInit /\ SemIdleInit /\ OthersIdleInit

SpecService == InitService /\ [][NextService]_vars

InitMarker ==
    /\ MarkerInit /\ ChainIdleInit /\ SemIdleInit /\ ServiceIdleInit
    /\ CrawlIdleInit /\ FlushIdleInit /\ FilterIdleInit
    /\ NewerIdleInit

SpecMarker == InitMarker /\ [][NextMarker]_vars

InitCrawl ==
    /\ CrawlInit /\ ChainIdleInit /\ SemIdleInit /\ ServiceIdleInit
    /\ MarkerIdleInit /\ FlushIdleInit /\ FilterIdleInit
    /\ NewerIdleInit

SpecCrawl == InitCrawl /\ [][NextCrawl]_vars

InitFlush ==
    /\ FlushInit /\ ChainIdleInit /\ SemIdleInit /\ ServiceIdleInit
    /\ MarkerIdleInit /\ CrawlIdleInit /\ FilterIdleInit
    /\ NewerIdleInit

SpecFlush == InitFlush /\ [][NextFlush]_vars

InitFilter ==
    /\ FilterInit /\ ChainIdleInit /\ SemIdleInit /\ ServiceIdleInit
    /\ MarkerIdleInit /\ CrawlIdleInit /\ FlushIdleInit
    /\ NewerIdleInit

SpecFilter == InitFilter /\ [][NextFilter]_vars

OlderIdleInit ==
    /\ ChainIdleInit /\ SemIdleInit /\ ServiceIdleInit /\ MarkerIdleInit
    /\ CrawlIdleInit /\ FlushIdleInit /\ FilterIdleInit

InitExtract ==
    /\ ExtractInit /\ OlderIdleInit
    /\ LiveIdleInit /\ MainIdleInit /\ FileIdleInit

SpecExtract == InitExtract /\ [][NextExtract]_vars

InitLive ==
    /\ LiveInit /\ OlderIdleInit
    /\ ExtractIdleInit /\ MainIdleInit /\ FileIdleInit

\* Every await of run returns: each fetch returns and each operator prompt is
\* answered, so a step that can be taken is taken.
SpecLive == InitLive /\ [][NextLive]_vars /\ WF_vars(NextLive)

InitMain ==
    /\ MainInit /\ OlderIdleInit
    /\ ExtractIdleInit /\ LiveIdleInit /\ FileIdleInit

SpecMain == InitMain /\ [][NextMain]_vars

InitFile ==
    /\ FileInit /\ OlderIdleInit
    /\ ExtractIdleInit /\ LiveIdleInit /\ MainIdleInit

SpecFile == InitFile /\ [][NextFile]_vars

\* ------------------------------------------------- claims on the chain
\* URLs fetched (crawler.arun issued) while level l was being processed.
FetchedAt(l) == {u \in URLs : fetch_count[l][u] > 0}

\* The frontier level l was given: the seed for level 1, the URLs kept for the
\* previous level otherwise.
FrontierOf(l) ==
    IF l = 1 THEN {base_url}
    ELSE IF l - 1 <= Len(all_results)
         THEN {all_results[l - 1][k].url : k \in 1 .. Len(all_results[l - 1])}
         ELSE {}

\* Number of crawler.arun calls issued for url u over the whole run.
RECURSIVE TotalFetches(_, _)
TotalFetches(u, l) ==
    IF l = 0 THEN 0 ELSE fetch_count[l][u] + TotalFetches(u, l - 1)

C2_NoLevelAfterEmpty ==
    /\ Len(files) = Len(all_results)
    /\ \A l \in Levels :
         (\/ l <= Len(files)
          \/ FetchedAt(l) # {}
          \/ (chain_pc = "level" /\ l <= level_idx))
         => \A j \in 1 .. (l - 1) : j <= Len(all_results) /\ all_results[j] # <<>>

\* C2 witness: level 2 of the 3-level chain left nothing and the run ended
\* with level 3 never fetched and never written.
C2_Witness ==
    /\ chain_pc = "done"
    /\ Len(files) = 2
    /\ files[1] # <<>>
    /\ files[2] = <<>>
    /\ FetchedAt(2) # {}
    /\ FetchedAt(3) = {}

\* C3: when a URL is fetched at level l, every URL of the frontier of every
\* earlier level has been fetched and processed, and the fetched URL belongs
\* to the frontier level l was given.
C3_PhaseBarrier ==
    \A l \in Levels :
        FetchedAt(l) # {} =>
          /\ FetchedAt(l) \subseteq FrontierOf(l)
          /\ \A j \in 1 .. (l - 1) :
               /\ j <= Len(files)
               /\ FrontierOf(j) \subseteq FetchedAt(j)

\* C3 witness: level 2 had two URLs to fetch, and level 3 is being fetched.
C3_Witness ==
    /\ Cardinality(FrontierOf(2)) = 2
    /\ FetchedAt(2) = FrontierOf(2)
    /\ level_idx = 3
    /\ source_url # NoUrl

\* ------------------------------------------- claims on download_pdf.py
\* C4: at most max_concurrent page crawls of process_jsonl are inside the
\* semaphore at once, and within each crawl_and_download_pdfs call at most
\* max_concurrent file downloads are in flight at once, whatever the number
\* of pending URLs and links.
C4_BoundedConcurrency ==
    /\ Cardinality(Crawling) <= MaxConcurrent
    /\ \A t \in Tasks : Cardinality(Downloading(t)) <= DownloadConcurrent

\* C4 witness: both limits are reached while more URLs and links are pending.
C4_Witness ==
    /\ Cardinality(Crawling) = MaxConcurrent
    /\ \E t \in Tasks : crawl_pc[t] = "waiting"
    /\ \E t \in Tasks :
         /\ Cardinality(Downloading(t)) = DownloadConcurrent
         /\ \E k \in Links : download_pc[t][k] = "waiting"


\* ------------------------------------------------------------- C5 .. C10
Last(xs) == xs[Len(xs)]

\* C5 as stated: a non-ok response ends the attempts for the URL, so no
\* attempt of a capture_page call follows one that got a non-ok response.
C5_NoRetryAfterHttpError ==
    \A k \in 1 .. (Len(attempt_log) - 1) : attempt_log[k] # "http_error"

\* C5 amended: a non-ok response is retried like the other failures, at once
\* (no 2 s sleep): the call ends on a non-ok response only when that was the
\* last of the max_retries + 1 attempts, and its outcome is then failed.
C5_HttpErrorRetriedUntilExhausted ==
    /\ (cap_pc = "sleep" => Last(attempt_log) # "http_error")
    /\ (cap_pc = "returned" /\ Last(attempt_log) = "http_error")
         => /\ Len(attempt_log) = max_retries + 1
            /\ result_status = "failed"

C5_Witness ==
    /\ cap_pc = "returned"
    /\ Len(attempt_log) >= 2
    /\ \A k \in 1 .. Len(attempt_log) : attempt_log[k] = "http_error"
    /\ result_status = "failed"

C7_ReinspectedBeforePrompt == gate_pc = "prompt" => inspections > attempt

\* C8: the operator prompt is reached only after 3 rounds that each found
\* markers; after the operator's signal the gate returns cleared with no
\* further inspection; every return of the gate is a cleared one (it marks
\* the first session, the only one the gate runs on, as cleared).
C8_PromptAfterThreeRounds ==
    /\ gate_pc = "prompt" =>
         attempt = max_attempts /\ hits = max_attempts
    /\ (gate_pc = "returned" /\ attempt = max_attempts) =>
         inspections = max_attempts /\ hits = max_attempts
    /\ gate_pc = "returned" => cleared_sessions = {1}

C8_Witness ==
    /\ gate_pc = "returned"
    /\ attempt = max_attempts
    /\ challenged
    /\ cleared_sessions = {1}

\* A page.goto for a record is in progress.
RecordFetch ==
    \/ run_pc = "download"
    \/ run_pc = "capture" /\ cap_pc = "goto"

C10_AttemptExceptionSwallowed ==
    /\ gate_exc # "attempt"
    /\ gate_pc = "raised" => gate_exc = "inspect"
    /\ attempt_errors <= attempt + (IF gate_pc = "sleep" THEN 1 ELSE 0)

C10_Witness ==
    /\ service = "pdf"
    /\ gate_pc = "prompt"
    /\ attempt_errors = max_attempts

\* ------------------------------------------------------------ C11 .. C20
\* C11 as stated: a page whose content contains "checking if the connection
\* is secure" is classified as challenged by the first inspection.
C11_SecurePhraseChallenged ==
    (marker_pc = "tested"
       /\ "checking if the connection is secure" \in page_content)
      => is_cloudflare

\* The lines the current run has appended to the log.
Appended == SubSeq(log_file, Len(log_at_start) + 1, Len(log_file))

\* C12: crawl only appends to the log, and never a URL the log held when the
\* run started; a run that sees the same links as the previous, successful
\* run appends nothing.
C12_ResumeIdempotent ==
    /\ Len(log_file) >= Len(log_at_start)
    /\ SubSeq(log_file, 1, Len(log_at_start)) = log_at_start
    /\ ToSet(Appended) \cap ToSet(log_at_start) = {}
    /\ (crawl_runs >= 2 /\ prev_success /\ crawler_pc \in {"returned", "task_done"}
          /\ all_links = prev_links)
         => Appended = <<>>

C12_Witness ==
    /\ crawl_runs = 2
    /\ prev_success
    /\ crawler_pc = "task_done"
    /\ summary_success
    /\ all_links = prev_links
    /\ log_at_start # <<>>
    /\ log_file = log_at_start

\* C18 as stated: when the log cannot be appended to, the crawl task is
\* reported as failed.
C18_WriteFailureFailsTask ==
    (crawler_pc = "task_done" /\ summary_error = "write")
      => task_success = "false"

IsPrefix(xs, ys) == Len(xs) <= Len(ys) /\ SubSeq(ys, 1, Len(xs)) = xs

\* C13 as stated: every write to an output log only adds lines after the
\* existing ones (here: save_results of the two services).
C13_AppendOnly == [][IsPrefix(output_file, output_file')]_vars

\* C15 as stated: when a page fetch for a record follows another page fetch
\* on the shared page, request_delay has been applied in between.
C15_DelayBetweenFetches ==
    RecordFetch => since_fetch \in {"first", "request_delay"}

\* C17 as stated (PDFDownloaderService.run): every input record yields one
\* entry in results, so the processed count of the summary equals the total.
C17_EveryRecordReported ==
    (service = "pdf" /\ run_pc = "done") => Len(results) = total

\* C14 as stated: whenever the process is killed, the output file holds
\* every outcome produced up to the last completed save.
C14_KilledKeepsFlushed == flush_pc = "killed" => on_disk >= flushed

\* C16 as stated (validate_and_extract): with an invalid pattern in a level
\* the run aborts before any page is fetched.
C16_InvalidRegexBeforeFetch ==
    ~patterns_valid => \A l \in Levels : FetchedAt(l) = {}

\* C19 as stated: the levels are processed in strictly increasing ordinal
\* order, so that no level file is written twice.
C19_IncreasingOrdinals ==
    /\ \A j, k \in 1 .. level_idx : j < k => levels[j] < levels[k]
    /\ \A o \in Levels : Len(level_files[o]) <= 1

\* C20: a candidate survives exactly when the filter pattern matches its
\* resolved URL or the candidate itself, every candidate survives when no
\* filter is declared, and a survivor is recorded under its resolved URL.
C20_FilterSurvivors ==
    filter_pc = "filtered" =>
      /\ {r.matched_text : r \in ToSet(survivors)} =
           IF filter_pattern.declared
             THEN {l \in raw_links :
                     \/ ReMatch(filter_pattern, FullUrl(l))
                     \/ ReMatch(filter_pattern, l)}
             ELSE raw_links
      /\ \A r \in ToSet(survivors) : r.url = FullUrl(r.matched_text)
      /\ Len(survivors) = Cardinality(ToSet(survivors))

\* The example: the filter accepts the rooted string with path 1 only; of the
\* rooted candidates with paths 1 and 2 the first survives, as base_url + it.
C20_Witness ==
    /\ filter_pc = "filtered"
    /\ filter_pattern = [declared |-> TRUE, kinds |-> {"/"}, paths |-> {1}]
    /\ raw_links = {<<"/", 1>>, <<"/", 2>>}
    /\ survivors = <<[url |-> <<"base_url+", 1>>, matched_text |-> <<"/", 1>>]>>

\* ---------------------------------- claims on the page of a chain level
\* url is what the three cases of the resolution contract give for a link
\* found on the page `source`: the link itself if it has the http scheme, the
\* path on base_url's host if it starts with a slash, and otherwise an
\* absolute URL in the directory of the page.
IsResolved(url, link, source) ==
    CASE link[1] = "http://" -> url = link
      [] link[1] = "/" -> url = AbsUrl(BaseHost, "/", link[2])
      [] OTHER -> /\ Len(url) = 4
                  /\ url[1] = "http://"
                  /\ url[2] = source[1]
                  /\ url[3] = source[2]

\* The matches of the page that can be resolved.
Hrefs == ToSet(page_matches) \ {Unexpected}

\* C21 as stated: a link with the http/https scheme is recorded unchanged, a
\* link starting with a slash is joined to the host of base_url, and any
\* other link, a relative path that begins with the letters http included,
\* is resolved relative to the page it was found on.
C21_ThreeCaseResolution ==
    \A k \in 1 .. Len(page_results) :
      IsResolved(page_results[k].url, page_results[k].matched_text,
                 page_source)

\* C22 as stated: with no filter, the records kept for the page hold the
\* resolved absolute URL of every href of the page, nothing else, and no URL
\* twice.
C22_SurvivorsAreResolvedHrefs ==
    (extract_pc = "done" /\ page_filter = "") =>
      /\ \A link \in Hrefs : \E k \in 1 .. Len(page_results) :
           IsResolved(page_results[k].url, link, page_source)
      /\ \A k \in 1 .. Len(page_results) : \E link \in Hrefs :
           IsResolved(page_results[k].url, link, page_source)
      /\ \A j, k \in 1 .. Len(page_results) :
           page_results[j].url = page_results[k].url => j = k

\* C24 as stated: a match of unexpected structure only skips that match;
\* every other match of the page that passes the filter is recorded.
C24_OtherMatchesRecorded ==
    extract_pc = "done" =>
      \A link \in Hrefs :
        Keeps(page_filter, ResolveLink(link, page_source), link) =>
          \E k \in 1 .. Len(page_results) :
            page_results[k].url = ResolveLink(link, page_source)

\* ------------------------------------------ more claims on the chain
\* The records written for the level processed last.
LastWritten == files[Len(files)]

\* C23: the frontier handed on after a level is the set of the url values of
\* the records written for that level; no two written records have the same
\* url, and the record written for a url is the first one discovered.
C23_FrontierIsWrittenUrls ==
    Len(files) >= 1 =>
      /\ ToSet(current_urls) =
           {LastWritten[k].url : k \in 1 .. Len(LastWritten)}
      /\ Len(current_urls) = Cardinality(ToSet(current_urls))
      /\ \A j, k \in 1 .. Len(LastWritten) :
           LastWritten[j].url = LastWritten[k].url => j = k
      /\ chain_pc = "done" =>
           \A k \in 1 .. Len(LastWritten) :
             \E j \in 1 .. Len(level_results) :
               /\ level_results[j] = LastWritten[k]
               /\ \A h \in 1 .. (j - 1) :
                    level_results[h].url # LastWritten[k].url

\* A level found the same url on two pages: two records, one written.
C23_Witness ==
    /\ chain_pc = "done"
    /\ Len(files) >= 2
    /\ Len(level_results) > Len(LastWritten)
    /\ current_urls # <<>>

\* ------------------------------------------- claims on the service loops
\* C25 as stated: when every fetch returns and every operator prompt is
\* answered, a run of either service over its records terminates; the
\* restart of the browser does not repeat forever on one record.
C25_RunTerminates == <>(live_pc = "done")

\* ------------------------------------------------- claims on run.main
\* C26 as stated: whatever flags are given, --crawl-only runs no capture and
\* no download, --capture-only no crawl and no download, --download-only no
\* crawl and no capture; the phases that run do so in the order crawl,
\* capture, download.
C26_FlagRunsOnlyItsPhase ==
    /\ crawl_only => ToSet(phases_run) \subseteq {"crawl"}
    /\ capture_only => ToSet(phases_run) \subseteq {"capture"}
    /\ download_only => ToSet(phases_run) \subseteq {"download"}
    /\ \A j, k \in 1 .. Len(phases_run) :
         j < k => <<phases_run[j], phases_run[k]>> \in
                    {<<"crawl", "crawl">>, <<"crawl", "capture">>,
                     <<"crawl", "download">>, <<"capture", "download">>}

\* ---------------------------------------------- claims on download_file
\* C27 as stated: under any interleaving of the download_file tasks at most
\* one task ever writes a given path, and whenever a task returns a path, as
\* already existing or as downloaded, the file is completely written.
C27_OneWriterCompleteFile ==
    /\ \A p \in Paths : Cardinality(writers[p]) <= 1
    /\ \A r \in reports : r.state = "complete"

\* ------------------------------------ claims on PageCapturerService.run
\* C28: in PageCapturerService.run, results holds one entry per record
\* already passed, each success or failed, and at every loop boundary
\* success_count + failed_count = len(results); an outcome flagged
\* browser_crashed is neither recorded nor counted, and after the restart the
\* same record is processed again.
C28_ResultsMatchPassedRecords ==
    service = "capturer" =>
      /\ Len(results) = i
      /\ ToSet(results) \subseteq {"success", "failed"}
      /\ run_pc \in {"loop", "done"} =>
           /\ success_count + failed_count = Len(results)
           /\ success_count =
                Cardinality({k \in 1 .. Len(results) : results[k] = "success"})
      /\ (run_pc = "capture" /\ cap_pc = "returned" /\ browser_crashed) =>
           /\ success_count + failed_count = Len(results)
           /\ result_status = "pending"

\* A run of two records with a browser crash on the way.
C28_Witness ==
    /\ service = "capturer"
    /\ run_pc = "done"
    /\ session = 2
    /\ results = <<"success", "failed">>
    /\ success_count = 1
    /\ failed_count = 1

\* ------------------------------------------ more claims on the crawler
\* C29 as stated: whenever run_crawl_task returns success true, the summary
\* of the crawl has success true and no error.
C29_TaskSuccessIsCrawlSuccess ==
    task_success = "true" => (summary_success /\ summary_error = "none")

\* C30 as stated: crawl never raises; the summary it returns has
\* saved_links <= matched_links <= total_links and success true exactly when
\* error is None, so that a failure gives success false and an error.
C30_NeverRaisesConsistentSummary ==
    /\ crawler_pc # "raised"
    /\ crawler_pc = "returned" =>
         /\ saved_links <= matched_links
         /\ matched_links <= total_links
         /\ summary_success <=> (summary_error = "none")

====
